---- MODULE Spec2Model ----
(***************************************************************************)
(* Model of tw_bitcoin's OutputBuilder::utxo_from_proto and                *)
(* output_from_address                                                     *)
(* (src/rust/tw_bitcoin/src/modules/transactions/output_builder.rs).       *)
(*                                                                         *)
(* Byte strings are sequences over 0..255.  Results of fallible calls are  *)
(* records: [kind |-> "Ok", val |-> v], [kind |-> "Err", err |-> code] or  *)
(* [kind |-> "Panic", msg |-> m] (unwrap / expect / todo! unwinding).      *)
(***************************************************************************)
EXTENDS Integers, Sequences, FiniteSets, TLC

(* ------------------------------- bounds -------------------------------- *)
\* content bytes of hashes, programs and keys range over 1..MaxFill (and 0)
MaxFill == 1
\* amounts range over AmountBase * (0..MaxAmount)
MaxAmount == 1
\* redeem scripts / explicit scripts have lengths 0..MaxScriptLen
MaxScriptLen == 2

(* --------------------------- byte-string helpers ----------------------- *)
Fill(b, n) == [i \in 1..n |-> b]

RECURSIVE SumBytes(_)
SumBytes(s) == IF s = <<>> THEN 0 ELSE Head(s) + SumBytes(Tail(s))

Ok(v) == [kind |-> "Ok", val |-> v]
Err(e) == [kind |-> "Err", err |-> e]
Panic(m) == [kind |-> "Panic", msg |-> m]

(* ------------------- primitive layer (hashes, keys, tweak) ------------- *)
\* A digest of n bytes that depends on the length and the content of s.
Digest(s, n, salt) == [i \in 1..n |-> (SumBytes(s) * 7 + Len(s) * i + salt) % 256]

SHA256(s) == Digest(s, 32, 11)
RIPEMD160(s) == Digest(s, 20, 29)
HASH160(s) == RIPEMD160(SHA256(s))

\* x coordinates that are the abscissa of a curve point (x = 0 is not).
OnCurve(x) == SumBytes(x) % 3 # 0

\* bitcoin::PublicKey::from_slice: 33 bytes (02/03 prefix) or 65 bytes (04).
PublicKey_from_slice(b) ==
    IF Len(b) = 33
    THEN IF b[1] \in {2, 3} /\ OnCurve(SubSeq(b, 2, 33))
         THEN Ok([compressed |-> TRUE, bytes |-> b])
         ELSE Err("Error_invalid_public_key")
    ELSE IF Len(b) = 65
    THEN IF b[1] = 4 /\ OnCurve(SubSeq(b, 2, 33))
         THEN Ok([compressed |-> FALSE, bytes |-> b])
         ELSE Err("Error_invalid_public_key")
    ELSE Err("Error_invalid_public_key")

XOnlyPublicKey_from(pk) == SubSeq(pk.bytes, 2, 33)

\* PublicKey::pubkey_hash: HASH160 of the serialized key.
pubkey_hash(pk) == HASH160(pk.bytes)

\* PublicKey::wpubkey_hash: None for an uncompressed key.
wpubkey_hash(pk) ==
    IF pk.compressed THEN Ok(HASH160(pk.bytes)) ELSE Err("None")

\* BIP341 tweak of an x-only key with an optional merkle root (<<>> = None).
taproot_tweak(xonly, merkle_root) == Digest(xonly \o merkle_root, 32, 53)

\* hash newtypes: from_slice accepts exactly the digest length.
Hash_from_slice(b, n) == IF Len(b) = n THEN Ok(b) ELSE Err("FromSliceError")

(* ----------------------------- ScriptBuf ------------------------------- *)
\* OP_HASH160 PUSH20 <h> OP_EQUAL
new_p2sh(h) == <<169, 20>> \o h \o <<135>>

\* OP_DUP OP_HASH160 PUSH20 <h> OP_EQUALVERIFY OP_CHECKSIG
new_p2pkh(h) == <<118, 169, 20>> \o h \o <<136, 172>>
\* OP_0 PUSH32 <h>
new_v0_p2wsh(h) == <<0, 32>> \o h
\* OP_0 PUSH20 <h>
new_v0_p2wpkh(h) == <<0, 20>> \o h
\* OP_1 PUSH32 <tweaked key>
new_v1_p2tr(xonly, merkle_root) == <<81, 32>> \o taproot_tweak(xonly, merkle_root)

script_hash(script) == HASH160(script)
wscript_hash(script) == SHA256(script)

(* ------------- Inscription Engine (brc20.rs / ordinals.rs) ------------- *)
\* largest payload the envelope builder accepts as one inscription
PushBytesLimit == 1

RECURSIVE DecimalDigits(_)
DecimalDigits(n) ==
    IF n < 10 THEN <<48 + n>> ELSE DecimalDigits(n \div 10) \o <<48 + (n % 10)>>

\* The taproot leaf: <key> OP_CHECKSIG OP_FALSE OP_IF "ord" 1 <mime> 0 <data> OP_ENDIF,
\* its merkle root and the control block (leaf version, internal key) of a
\* single-leaf tree.
Inscription(pk, mime, data) ==
    LET leaf == <<32>> \o XOnlyPublicKey_from(pk) \o <<172, 0, 99, 3, 111, 114, 100, 1, 1>>
                \o <<Len(mime)>> \o mime \o <<0>> \o data \o <<104>>
    IN [taproot_program |-> leaf,
        merkle_root     |-> Digest(leaf, 32, 71),
        control_block   |-> <<192>> \o XOnlyPublicKey_from(pk)]

OrdinalNftInscription_new(mime, data, pk) ==
    IF Len(data) > PushBytesLimit \/ Len(mime) > PushBytesLimit
    THEN Err("Error_invalid_inscription")
    ELSE Ok(Inscription(pk, mime, data))

\* A BRC20 ticker is a 4-letter identifier.
Brc20Ticker_new(ticker) ==
    IF Len(ticker) # 4 THEN Err("Error_invalid_brc20_ticker") ELSE Ok(ticker)

BRC20TransferInscription_new(pk, ticker, amount) ==
    Ok(Inscription(pk, <<>>, ticker \o DecimalDigits(amount)))

(* --------------------------- helper functions -------------------------- *)

\* redeem_script_or_hash, had its None arm reported the builder as missing
redeem_script_or_hash_none_as_builder(script_or_hash) ==
    CASE script_or_hash.variant = "hash" ->
           LET r == Hash_from_slice(script_or_hash.bytes, 20)
           IN IF r.kind = "Ok" THEN r ELSE Err("Error_invalid_redeem_script")
      [] script_or_hash.variant = "redeem_script" ->
           Ok(script_hash(script_or_hash.bytes))
      [] OTHER -> Err("Error_missing_output_builder")
redeem_script_or_hash(script_or_hash) ==
    CASE script_or_hash.variant = "hash" ->
           LET r == Hash_from_slice(script_or_hash.bytes, 20)
           IN IF r.kind = "Ok" THEN r ELSE Err("Error_invalid_redeem_script")
      [] script_or_hash.variant = "redeem_script" ->
           Ok(script_hash(script_or_hash.bytes))
      [] OTHER -> Err("Error_missing_recipient")


\* witness_redeem_script_or_hash, had it checked a hash as P2SH does
witness_redeem_script_or_hash_len20(script_or_hash) ==
    CASE script_or_hash.variant = "hash" ->
           LET r == Hash_from_slice(script_or_hash.bytes, 20)
           IN IF r.kind = "Ok" THEN r ELSE Err("Error_invalid_witness_redeem_script")
      [] script_or_hash.variant = "redeem_script" ->
           Ok(wscript_hash(script_or_hash.bytes))
      [] OTHER -> Err("Error_missing_recipient")

\* witness_redeem_script_or_hash, had it hashed the script as P2SH does
witness_redeem_script_or_hash_hash160(script_or_hash) ==
    CASE script_or_hash.variant = "hash" ->
           LET r == Hash_from_slice(script_or_hash.bytes, 32)
           IN IF r.kind = "Ok" THEN r ELSE Err("Error_invalid_witness_redeem_script")
      [] script_or_hash.variant = "redeem_script" ->
           Ok(script_hash(script_or_hash.bytes))
      [] OTHER -> Err("Error_missing_recipient")
witness_redeem_script_or_hash(script_or_hash) ==
    CASE script_or_hash.variant = "hash" ->
           LET r == Hash_from_slice(script_or_hash.bytes, 32)
           IN IF r.kind = "Ok" THEN r ELSE Err("Error_invalid_witness_redeem_script")
      [] script_or_hash.variant = "redeem_script" ->
           Ok(wscript_hash(script_or_hash.bytes))
      [] OTHER -> Err("Error_missing_recipient")

pubkey_hash_from_proto(pubkey_or_hash) ==
    CASE pubkey_or_hash.to_address = "hash" ->
           LET r == Hash_from_slice(pubkey_or_hash.bytes, 20)
           IN IF r.kind = "Ok" THEN r ELSE Err("Error_invalid_pubkey_hash")
      [] pubkey_or_hash.to_address = "pubkey" ->
           LET pk == PublicKey_from_slice(pubkey_or_hash.bytes)
           IN IF pk.kind = "Ok" THEN Ok(pubkey_hash(pk.val)) ELSE pk
      [] OTHER -> Err("Error_missing_recipient")

witness_pubkey_hash_from_proto(pubkey_or_hash) ==
    CASE pubkey_or_hash.to_address = "hash" ->
           LET r == Hash_from_slice(pubkey_or_hash.bytes, 20)
           IN IF r.kind = "Ok" THEN r ELSE Err("Error_invalid_witness_pubkey_hash")
      [] pubkey_or_hash.to_address = "pubkey" ->
           LET pk == PublicKey_from_slice(pubkey_or_hash.bytes)
           IN IF pk.kind # "Ok" THEN pk
              ELSE LET h == wpubkey_hash(pk.val)
                   IN IF h.kind = "Ok" THEN h
                      ELSE Err("Error_invalid_witness_pubkey_hash")
      [] OTHER -> Err("Error_missing_recipient")

(* ------------------------------ addresses ------------------------------ *)
\* An address text is represented by what its characters encode:
\*   utf8 : whether the bytes are valid UTF-8
\*   enc  : "base58" (base58check), "bech32" (segwit) or "junk"
\*   hrp  : the bech32 human-readable part
\*   ver  : the base58check version byte, or the witness version
\*   data : the hash, or the witness program
String_from_utf8(addr) == IF addr.utf8 THEN Ok(addr) ELSE Err("FromUtf8Error")

Address_from_str(s) ==
    CASE s.enc = "bech32" ->
           IF /\ s.hrp \in {"bc", "tb"}
              /\ s.ver \in 0..16
              /\ Len(s.data) \in 2..40
              /\ (s.ver = 0 => Len(s.data) \in {20, 32})
           THEN Ok([network |-> IF s.hrp = "bc" THEN "Bitcoin" ELSE "Testnet",
                    payload |-> [kind |-> "WitnessProgram", version |-> s.ver,
                                 bytes |-> s.data]])
           ELSE Err("ParseError")
      [] s.enc = "base58" ->
           IF Len(s.data) = 20 /\ s.ver \in {0, 5, 111, 196}
           THEN Ok([network |-> IF s.ver \in {0, 5} THEN "Bitcoin" ELSE "Testnet",
                    payload |-> [kind |-> IF s.ver \in {0, 111} THEN "PubkeyHash"
                                                                 ELSE "ScriptHash",
                                 version |-> s.ver, bytes |-> s.data]])
           ELSE Err("ParseError")
      [] OTHER -> Err("ParseError")

require_network(addr, required) ==
    IF addr.network = required THEN Ok(addr) ELSE Err("NetworkValidation")

(* ------------------------------ messages ------------------------------- *)
\* Proto::Output and its oneof fields
Output(amount, to_recipient) == [amount |-> amount, to_recipient |-> to_recipient]
R_script_pubkey(script) == [kind |-> "script_pubkey", script |-> script]
R_builder(variant) == [kind |-> "builder", variant |-> variant]
R_from_address(addr) == [kind |-> "from_address", addr |-> addr]
R_None == [kind |-> "None"]

RedeemScriptOrHash(variant, bytes) == [variant |-> variant, bytes |-> bytes]
ToPublicKeyOrHash(to_address, bytes) == [to_address |-> to_address, bytes |-> bytes]

B_p2sh(script_or_hash) == [tag |-> "p2sh", arg |-> script_or_hash]
B_p2pkh(pubkey_or_hash) == [tag |-> "p2pkh", arg |-> pubkey_or_hash]
B_p2wsh(script_or_hash) == [tag |-> "p2wsh", arg |-> script_or_hash]
B_p2wpkh(pubkey_or_hash) == [tag |-> "p2wpkh", arg |-> pubkey_or_hash]
B_p2tr_key_path(pubkey) == [tag |-> "p2tr_key_path", pubkey |-> pubkey]
B_p2tr_script_path(public_key, node_hash) ==
    [tag |-> "p2tr_script_path", public_key |-> public_key, node_hash |-> node_hash]
B_ordinal_inscribe(inscribe_to, mime_type, payload) ==
    [tag |-> "ordinal_inscribe", inscribe_to |-> inscribe_to,
     mime_type |-> mime_type, payload |-> payload]
B_brc20_inscribe(inscribe_to, ticker, transfer_amount) ==
    [tag |-> "brc20_inscribe", inscribe_to |-> inscribe_to,
     ticker |-> ticker, transfer_amount |-> transfer_amount]
B_None == [tag |-> "None"]

\* Proto::mod_PreSigningOutput::TxOut
TxOut(value, script_pubkey, control_block, taproot_payload) ==
    [value |-> value, script_pubkey |-> script_pubkey,
     control_block |-> control_block, taproot_payload |-> taproot_payload]

\* Option<Vec<u8>>
None_ == [some |-> FALSE]
Some(v) == [some |-> TRUE, val |-> v]
unwrap_or_default(o) == IF o.some THEN o.val ELSE <<>>

NO_CONTROL_BLOCK == None_
NO_TAPROOT_PAYLOAD == None_

(* --------------------------- Address Resolver -------------------------- *)
\* witness_program_arm, had it built the P2WPKH Output without the amount
witness_program_arm_no_amount(amount, program) ==
    CASE program.version = 0 ->
           IF Len(program.bytes) # 20
           THEN Err("Error_bad_address_recipient")
           ELSE Ok(Output(0,
                     R_builder(B_p2wpkh(ToPublicKeyOrHash("hash", program.bytes)))))
      [] program.version = 1 ->
           IF Len(program.bytes) # 32
           THEN Err("Error_bad_address_recipient")
           ELSE Ok(Output(amount, R_builder(B_p2tr_key_path(program.bytes))))
      [] OTHER -> Err("Error_unsupported_address_recipient")

\* witness_program_arm, had it left out the length check of version 1
witness_program_arm_v1_any_length(amount, program) ==
    CASE program.version = 0 ->
           IF Len(program.bytes) # 20
           THEN Err("Error_bad_address_recipient")
           ELSE Ok(Output(amount,
                     R_builder(B_p2wpkh(ToPublicKeyOrHash("hash", program.bytes)))))
      [] program.version = 1 ->
           Ok(Output(amount, R_builder(B_p2tr_key_path(program.bytes))))
      [] OTHER -> Err("Error_unsupported_address_recipient")

\* The arm of `match addr.payload` for a witness program.
witness_program_arm(amount, program) ==
    CASE program.version = 0 ->
           IF Len(program.bytes) # 20
           THEN Err("Error_bad_address_recipient")
           ELSE Ok(Output(amount,
                     R_builder(B_p2wpkh(ToPublicKeyOrHash("hash", program.bytes)))))
      [] program.version = 1 ->
           IF Len(program.bytes) # 32
           THEN Err("Error_bad_address_recipient")
           ELSE Ok(Output(amount, R_builder(B_p2tr_key_path(program.bytes))))
      [] OTHER -> Err("Error_unsupported_address_recipient")


\* pubkey_hash_arm, had it handed the address back instead of a builder
pubkey_hash_arm_readdress(amount, payload) ==
    Ok(Output(amount, R_from_address(
         [utf8 |-> TRUE, enc |-> "base58", hrp |-> "", ver |-> payload.version,
          data |-> payload.bytes])))
\* pubkey_hash_arm, had it passed the hash on as a public key
pubkey_hash_arm_as_pubkey(amount, payload) ==
    Ok(Output(amount, R_builder(B_p2pkh(ToPublicKeyOrHash("pubkey", payload.bytes)))))

\* The arm of `match addr.payload` for a "PubkeyHash" address.
pubkey_hash_arm(amount, payload) ==
    Ok(Output(amount, R_builder(B_p2pkh(ToPublicKeyOrHash("hash", payload.bytes)))))

\* The arm of `match addr.payload` for a "ScriptHash" address.
script_hash_arm(amount, payload) == Panic("not yet implemented")

output_from_address(amount, addr) ==
    LET string == String_from_utf8(addr) IN
    IF string.kind # "Ok" THEN Panic("unwrap: FromUtf8Error") ELSE
    LET parsed == Address_from_str(string.val) IN
    IF parsed.kind # "Ok" THEN Panic("unwrap: address parse error") ELSE
    LET checked == require_network(parsed.val, "Bitcoin") IN
    IF checked.kind # "Ok" THEN Panic("unwrap: network validation") ELSE
    LET payload == checked.val.payload IN
    CASE payload.kind = "PubkeyHash" -> pubkey_hash_arm(amount, payload)
      [] payload.kind = "WitnessProgram" -> witness_program_arm(amount, payload)
      [] payload.kind = "ScriptHash" -> script_hash_arm(amount, payload)
      [] OTHER -> Err("Error_unsupported_address_recipient")

(* ----------------------------- Output Builder -------------------------- *)
Triple(script_pubkey, control_block, taproot_payload) ==
    Ok([script_pubkey |-> script_pubkey, control_block |-> control_block,
        taproot_payload |-> taproot_payload])


\* script_pubkey_arm, had it pushed the bytes instead of using them verbatim
script_pubkey_arm_pushed(script) ==
    Triple(<<Len(script)>> \o script, NO_CONTROL_BLOCK, NO_TAPROOT_PAYLOAD)
script_pubkey_arm(script) == Triple(script, NO_CONTROL_BLOCK, NO_TAPROOT_PAYLOAD)

p2sh_arm(script_or_hash) ==
    LET script_hash_ == redeem_script_or_hash(script_or_hash)
    IN IF script_hash_.kind # "Ok" THEN script_hash_
       ELSE Triple(new_p2sh(script_hash_.val), NO_CONTROL_BLOCK, NO_TAPROOT_PAYLOAD)

p2pkh_arm(pubkey_or_hash) ==
    LET pubkey_hash_ == pubkey_hash_from_proto(pubkey_or_hash)
    IN IF pubkey_hash_.kind # "Ok" THEN pubkey_hash_
       ELSE Triple(new_p2pkh(pubkey_hash_.val), NO_CONTROL_BLOCK, NO_TAPROOT_PAYLOAD)

p2wsh_arm(script_or_hash) ==
    LET wscript_hash_ == witness_redeem_script_or_hash(script_or_hash)
    IN IF wscript_hash_.kind # "Ok" THEN wscript_hash_
       ELSE Triple(new_v0_p2wsh(wscript_hash_.val), NO_CONTROL_BLOCK, NO_TAPROOT_PAYLOAD)

p2wpkh_arm(pubkey_or_hash) ==
    LET wpubkey_hash_ == witness_pubkey_hash_from_proto(pubkey_or_hash)
    IN IF wpubkey_hash_.kind # "Ok" THEN wpubkey_hash_
       ELSE Triple(new_v0_p2wpkh(wpubkey_hash_.val), NO_CONTROL_BLOCK, NO_TAPROOT_PAYLOAD)


\* p2tr_key_path_arm, had it returned the internal key as a control block
p2tr_key_path_arm_with_block(pubkey) ==
    LET pk == PublicKey_from_slice(pubkey)
    IN IF pk.kind # "Ok" THEN pk
       ELSE Triple(new_v1_p2tr(XOnlyPublicKey_from(pk.val), <<>>),
                   Some(<<192>> \o XOnlyPublicKey_from(pk.val)), NO_TAPROOT_PAYLOAD)
p2tr_key_path_arm(pubkey) ==
    LET pk == PublicKey_from_slice(pubkey)
    IN IF pk.kind # "Ok" THEN pk
       ELSE Triple(new_v1_p2tr(XOnlyPublicKey_from(pk.val), <<>>),
                   NO_CONTROL_BLOCK, NO_TAPROOT_PAYLOAD)


\* p2tr_script_path_arm, had it parsed the public key before the node hash
p2tr_script_path_arm_key_first(complex) ==
    LET pk == PublicKey_from_slice(complex.public_key)
    IN IF pk.kind # "Ok" THEN pk
       ELSE LET node_hash == Hash_from_slice(complex.node_hash, 32)
            IN IF node_hash.kind # "Ok" THEN Err("Error_invalid_taproot_root")
               ELSE Triple(new_v1_p2tr(XOnlyPublicKey_from(pk.val), node_hash.val),
                           NO_CONTROL_BLOCK, NO_TAPROOT_PAYLOAD)
p2tr_script_path_arm(complex) ==
    LET node_hash == Hash_from_slice(complex.node_hash, 32)
    IN IF node_hash.kind # "Ok" THEN Err("Error_invalid_taproot_root")
       ELSE LET pk == PublicKey_from_slice(complex.public_key)
            IN IF pk.kind # "Ok" THEN pk
               ELSE Triple(new_v1_p2tr(XOnlyPublicKey_from(pk.val), node_hash.val),
                           NO_CONTROL_BLOCK, NO_TAPROOT_PAYLOAD)

ordinal_inscribe_arm(ordinal) ==
    LET pk == PublicKey_from_slice(ordinal.inscribe_to)
    IN IF pk.kind # "Ok" THEN pk
       ELSE LET nft == OrdinalNftInscription_new(ordinal.mime_type, ordinal.payload, pk.val)
            IN IF nft.kind # "Ok" THEN Panic("unwrap: OrdinalNftInscription::new")
               ELSE Triple(new_v1_p2tr(XOnlyPublicKey_from(pk.val), nft.val.merkle_root),
                           Some(nft.val.control_block), Some(nft.val.taproot_program))

brc20_inscribe_arm(brc20) ==
    LET pk == PublicKey_from_slice(brc20.inscribe_to)
    IN IF pk.kind # "Ok" THEN pk
       ELSE LET ticker == Brc20Ticker_new(brc20.ticker)
            IN IF ticker.kind # "Ok" THEN ticker
               ELSE LET transfer == BRC20TransferInscription_new(pk.val, ticker.val,
                                                                 brc20.transfer_amount)
                    IN IF transfer.kind # "Ok"
                       THEN Panic("invalid BRC20 transfer construction")
                       ELSE Triple(new_v1_p2tr(XOnlyPublicKey_from(pk.val),
                                               transfer.val.merkle_root),
                                   Some(transfer.val.control_block),
                                   Some(transfer.val.taproot_program))

\* `match &builder.variant`
builder_arm(builder) ==
    CASE builder.tag = "p2sh" -> p2sh_arm(builder.arg)
      [] builder.tag = "p2pkh" -> p2pkh_arm(builder.arg)
      [] builder.tag = "p2wsh" -> p2wsh_arm(builder.arg)
      [] builder.tag = "p2wpkh" -> p2wpkh_arm(builder.arg)
      [] builder.tag = "p2tr_key_path" -> p2tr_key_path_arm(builder.pubkey)
      [] builder.tag = "p2tr_script_path" -> p2tr_script_path_arm(builder)
      [] builder.tag = "ordinal_inscribe" -> ordinal_inscribe_arm(builder)
      [] builder.tag = "brc20_inscribe" -> brc20_inscribe_arm(builder)
      [] OTHER -> Err("Error_missing_output_builder")

\* `match &output.to_recipient` for every arm but from_address, then the
\* construction of the TxOut.
utxo_direct(output) ==
    LET r == CASE output.to_recipient.kind = "script_pubkey" ->
                    script_pubkey_arm(output.to_recipient.script)
               [] output.to_recipient.kind = "builder" ->
                    builder_arm(output.to_recipient.variant)
               [] OTHER -> Err("Error_missing_recipient")
    IN IF r.kind # "Ok" THEN r
       ELSE Ok(TxOut(output.amount, r.val.script_pubkey,
                     unwrap_or_default(r.val.control_block),
                     unwrap_or_default(r.val.taproot_payload)))

(* ------------------------------- inputs -------------------------------- *)
Amounts == {1000 * k : k \in 0..MaxAmount}
Contents == 1..MaxFill

Scripts == {Fill(81, n) : n \in 0..MaxScriptLen}

ValidPubkeys ==
    {<<p>> \o Fill(b, 32) : p \in {2, 3}, b \in Contents} \cup {<<4>> \o Fill(1, 64)}
BadPubkeys == {<<2>> \o Fill(0, 32), <<5>> \o Fill(1, 32), Fill(1, 32)}
Pubkeys == ValidPubkeys \cup BadPubkeys
FewPubkeys == {<<2>> \o Fill(1, 32), <<2>> \o Fill(0, 32), Fill(1, 32)}

ScriptHashes ==
    {Fill(b, n) : b \in Contents, n \in {19, 20, 21, 31, 32, 33}}
      \cup {HASH160(s) : s \in Scripts} \cup {SHA256(s) : s \in Scripts}
PubkeyHashes ==
    {Fill(b, n) : b \in Contents, n \in {19, 20, 21}}
      \cup {HASH160(k) : k \in ValidPubkeys}

ScriptOrHashes ==
    {RedeemScriptOrHash("None", <<>>)}
      \cup {RedeemScriptOrHash("redeem_script", s) : s \in Scripts}
      \cup {RedeemScriptOrHash("hash", h) : h \in ScriptHashes}
PubkeyOrHashes ==
    {ToPublicKeyOrHash("None", <<>>)}
      \cup {ToPublicKeyOrHash("pubkey", k) : k \in Pubkeys}
      \cup {ToPublicKeyOrHash("hash", h) : h \in PubkeyHashes}

Builders ==
    {B_None}
      \cup {B_p2sh(x) : x \in ScriptOrHashes}
      \cup {B_p2wsh(x) : x \in ScriptOrHashes}
      \cup {B_p2pkh(x) : x \in PubkeyOrHashes}
      \cup {B_p2wpkh(x) : x \in PubkeyOrHashes}
      \cup {B_p2tr_key_path(k) : k \in Pubkeys}
      \cup {B_p2tr_script_path(k, Fill(1, n)) : k \in FewPubkeys, n \in {31, 32, 33}}
      \cup {B_ordinal_inscribe(k, <<116>>, Fill(7, n)) :
              k \in FewPubkeys, n \in 0..(PushBytesLimit + 1)}
      \cup {B_brc20_inscribe(k, Fill(111, n), a) :
              k \in FewPubkeys, n \in {3, 4}, a \in {0, 21}}

AddressText(utf8, enc, hrp, ver, data) ==
    [utf8 |-> utf8, enc |-> enc, hrp |-> hrp, ver |-> ver, data |-> data]

Addresses ==
    {AddressText(FALSE, "junk", "", 0, <<>>), AddressText(TRUE, "junk", "", 0, <<>>)}
      \cup {AddressText(TRUE, "base58", "", v, d) :
              v \in {0, 5, 9, 111, 196},
              d \in {Fill(b, 20) : b \in Contents} \cup {Fill(1, 19)}}
      \cup {AddressText(TRUE, "bech32", h, v, Fill(1, n)) :
              h \in {"bc", "tb"}, v \in {0, 1, 2}, n \in {20, 32, 33}}

Recipients ==
    {R_None}
      \cup {R_script_pubkey(s) : s \in Scripts}
      \cup {R_builder(b) : b \in Builders}
      \cup {R_from_address(a) : a \in Addresses}

Inputs == {Output(a, r) : a \in Amounts, r \in Recipients}

(* ---------------------------- state machine ---------------------------- *)
VARIABLES
    input,      \* the Output handed to utxo_from_proto by the caller
    cur,        \* the Output the active invocation of utxo_from_proto matches on
    pc,         \* "call": an invocation is about to run; "done"; "aborted"
    calls,      \* invocations of utxo_from_proto run for this input
    resolves,   \* invocations of output_from_address run for this input
    result,     \* what the caller received
    history     \* the inputs built before this one, with their results

vars == <<input, cur, pc, calls, resolves, result, history>>

Pending == [kind |-> "Pending"]

Init ==
    /\ input \in Inputs
    /\ cur = input
    /\ pc = "call"
    /\ calls = 0
    /\ resolves = 0
    /\ result = Pending
    /\ history = <<>>

\* utxo_from_proto on a script_pubkey, builder or None recipient.
Dispatch ==
    /\ pc = "call"
    /\ cur.to_recipient.kind # "from_address"
    /\ calls' = calls + 1
    /\ result' = utxo_direct(cur)
    /\ pc' = IF result'.kind = "Panic" THEN "aborted" ELSE "done"
    /\ UNCHANGED <<input, cur, resolves, history>>

\* utxo_from_proto on a from_address recipient: resolve, then call itself.
FromAddress ==
    /\ pc = "call"
    /\ cur.to_recipient.kind = "from_address"
    /\ calls' = calls + 1
    /\ resolves' = resolves + 1
    /\ LET proto == output_from_address(cur.amount, cur.to_recipient.addr)
       IN IF proto.kind = "Ok"
          THEN /\ cur' = proto.val
               /\ pc' = "call"
               /\ UNCHANGED result
          ELSE /\ result' = proto
               /\ pc' = IF proto.kind = "Panic" THEN "aborted" ELSE "done"
               /\ UNCHANGED cur
    /\ UNCHANGED <<input, history>>

\* The caller builds its next output.
NextOutput ==
    /\ pc = "done"
    /\ history = <<>>
    /\ history' = Append(history, [input |-> input, result |-> result])
    /\ input' \in Inputs
    /\ cur' = input'
    /\ pc' = "call"
    /\ calls' = 0
    /\ resolves' = 0
    /\ result' = Pending

Next == Dispatch \/ FromAddress \/ NextOutput

Spec == Init /\ [][Next]_vars

(* ------------------------------ properties ----------------------------- *)
Finished == pc \in {"done", "aborted"}
IsAddress(o) == o.to_recipient.kind = "from_address"
IsBuilder(o, tags) ==
    o.to_recipient.kind = "builder" /\ o.to_recipient.variant.tag \in tags

\* every code of Proto::Error the builder and the resolver return
ErrorCodes ==
    {"Error_missing_recipient", "Error_missing_output_builder",
     "Error_invalid_redeem_script", "Error_invalid_witness_redeem_script",
     "Error_invalid_pubkey_hash", "Error_invalid_witness_pubkey_hash",
     "Error_invalid_public_key", "Error_invalid_taproot_root",
     "Error_bad_address_recipient", "Error_unsupported_address_recipient",
     "Error_invalid_brc20_ticker"}

\* what the address codec makes of the input's address text
Decoded(o) ==
    IF String_from_utf8(o.to_recipient.addr).kind = "Ok"
    THEN Address_from_str(o.to_recipient.addr)
    ELSE Err("FromUtf8Error")

\* C1: once the resolver has returned Ok (the active Output is no longer the
\* caller's), the resolved recipient is not an address; an address input
\* runs the resolver once and utxo_from_proto twice (one recursion), and no
\* input runs the resolver more than once or utxo_from_proto more than twice.
C1_OneHop ==
    /\ resolves <= 1
    /\ calls <= 2
    /\ (IsAddress(input) /\ cur # input) =>
          /\ ~IsAddress(cur)
          /\ resolves = 1
          /\ (Finished => calls = 2)
    /\ ~IsAddress(input) => (resolves = 0 /\ calls <= 1)

C1_Witness ==
    /\ IsAddress(input) /\ pc = "done" /\ result.kind = "Ok"
    /\ resolves = 1 /\ calls = 2

\* C2: every build ends with a complete TxOut or with an error code, and
\* never aborts the process.
C2_TypedOutcome ==
    Finished =>
       \/ /\ result.kind = "Ok"
          /\ DOMAIN result.val =
               {"value", "script_pubkey", "control_block", "taproot_payload"}
       \/ /\ result.kind = "Err"
          /\ result.err \in ErrorCodes

\* C3: an address that decodes to a script hash ends in
\* Error_unsupported_address_recipient.
C3_ScriptHashUnsupported ==
    (/\ Finished
     /\ IsAddress(input)
     /\ Decoded(input).kind = "Ok"
     /\ Decoded(input).val.payload.kind = "ScriptHash")
       => result = Err("Error_unsupported_address_recipient")

\* C4: address bytes that are not UTF-8, or that do not parse as an address,
\* end in Error_bad_address_recipient.
C4_BadAddressText ==
    (Finished /\ IsAddress(input) /\ Decoded(input).kind # "Ok")
       => result = Err("Error_bad_address_recipient")

\* C5: a missing recipient ends in Error_missing_recipient, a missing builder
\* variant in Error_missing_output_builder, and a P2SH, P2WSH, P2PKH or P2WPKH
\* builder without its script, key or hash in Error_missing_recipient.
C5_MissingFields ==
    Finished =>
       /\ input.to_recipient.kind = "None" =>
             result = Err("Error_missing_recipient")
       /\ IsBuilder(input, {"None"}) =>
             result = Err("Error_missing_output_builder")
       /\ (/\ IsBuilder(input, {"p2sh", "p2wsh"})
           /\ input.to_recipient.variant.arg.variant = "None") =>
             result = Err("Error_missing_recipient")
       /\ (/\ IsBuilder(input, {"p2pkh", "p2wpkh"})
           /\ input.to_recipient.variant.arg.to_address = "None") =>
             result = Err("Error_missing_recipient")

C5_Witness ==
    /\ pc = "done"
    /\ IsBuilder(input, {"p2sh"})
    /\ input.to_recipient.variant.arg.variant = "None"
    /\ result = Err("Error_missing_recipient")

\* C6: in a returned TxOut control_block and taproot_payload are both empty
\* unless the input was an ordinal_inscribe or brc20_inscribe builder, and
\* for those both are non-empty.
C6_TaprootFieldsOnlyForInscriptions ==
    (Finished /\ result.kind = "Ok") =>
       IF IsBuilder(input, {"ordinal_inscribe", "brc20_inscribe"})
       THEN result.val.control_block # <<>> /\ result.val.taproot_payload # <<>>
       ELSE result.val.control_block = <<>> /\ result.val.taproot_payload = <<>>

C6_Witness ==
    /\ pc = "done" /\ result.kind = "Ok"
    /\ IsBuilder(input, {"p2tr_key_path"})
    /\ result.val.control_block = <<>>
    /\ Len(history) = 1
    /\ IsBuilder(history[1].input, {"brc20_inscribe"})
    /\ history[1].result.kind = "Ok"
    /\ history[1].result.val.control_block # <<>>

\* C7 as stated: every returned TxOut has a non-empty script_pubkey.
C7_NonEmptyScript ==
    (Finished /\ result.kind = "Ok") => result.val.script_pubkey # <<>>

\* C7 as amended: a returned TxOut carries the bytes of a script_pubkey
\* recipient verbatim (empty when they are empty) and a non-empty
\* script_pubkey for every builder and address recipient.
C7_VerbatimOrNonEmpty ==
    (Finished /\ result.kind = "Ok") =>
       IF input.to_recipient.kind = "script_pubkey"
       THEN result.val.script_pubkey = input.to_recipient.script
       ELSE result.val.script_pubkey # <<>>

C7_Witness ==
    /\ pc = "done" /\ result.kind = "Ok"
    /\ input.to_recipient.kind = "script_pubkey"
    /\ input.to_recipient.script = <<>>
    /\ result.val.script_pubkey = <<>>

\* a is the build of variant tag from a preimage and b the build of the same
\* variant from the hash of that preimage
PreimageAndHash(a, b, tag) ==
    /\ IsBuilder(a, {tag}) /\ IsBuilder(b, {tag})
    /\ LET x == a.to_recipient.variant.arg
           y == b.to_recipient.variant.arg
       IN IF tag \in {"p2sh", "p2wsh"}
          THEN /\ x.variant = "redeem_script"
               /\ y.variant = "hash"
               /\ y.bytes = IF tag = "p2sh" THEN HASH160(x.bytes) ELSE SHA256(x.bytes)
          ELSE /\ x.to_address = "pubkey"
               /\ Len(x.bytes) = 33
               /\ PublicKey_from_slice(x.bytes).kind = "Ok"
               /\ y.to_address = "hash"
               /\ y.bytes = HASH160(x.bytes)

\* C8: for P2SH, P2PKH, P2WSH and P2WPKH the build from a redeem script or a
\* compressed public key and the build from its hash (HASH160; SHA256 for
\* P2WSH) both succeed with the same script_pubkey.
C8_PreimageEqualsHash ==
    (Finished /\ Len(history) = 1) =>
       \A tag \in {"p2sh", "p2pkh", "p2wsh", "p2wpkh"} :
          PreimageAndHash(history[1].input, input, tag) =>
             /\ history[1].result.kind = "Ok"
             /\ result.kind = "Ok"
             /\ result.val.script_pubkey = history[1].result.val.script_pubkey

C8_Witness ==
    /\ pc = "done" /\ Len(history) = 1
    /\ PreimageAndHash(history[1].input, input, "p2wsh")
    /\ result.kind = "Ok"
    /\ result.val.script_pubkey = history[1].result.val.script_pubkey

\* C9: a hash of 19 or 21 bytes ends P2PKH in Error_invalid_pubkey_hash and
\* P2WPKH in Error_invalid_witness_pubkey_hash; a node_hash of 31 or 33 bytes
\* ends P2TRScriptPath in Error_invalid_taproot_root whatever the public key.
C9_BoundaryLengths ==
    Finished =>
       /\ (/\ IsBuilder(input, {"p2pkh"})
           /\ input.to_recipient.variant.arg.to_address = "hash"
           /\ Len(input.to_recipient.variant.arg.bytes) \in {19, 21}) =>
             result = Err("Error_invalid_pubkey_hash")
       /\ (/\ IsBuilder(input, {"p2wpkh"})
           /\ input.to_recipient.variant.arg.to_address = "hash"
           /\ Len(input.to_recipient.variant.arg.bytes) \in {19, 21}) =>
             result = Err("Error_invalid_witness_pubkey_hash")
       /\ (/\ IsBuilder(input, {"p2tr_script_path"})
           /\ Len(input.to_recipient.variant.node_hash) \in {31, 33}) =>
             result = Err("Error_invalid_taproot_root")

C9_Witness ==
    /\ pc = "done"
    /\ IsBuilder(input, {"p2tr_script_path"})
    /\ Len(input.to_recipient.variant.node_hash) = 33
    /\ PublicKey_from_slice(input.to_recipient.variant.public_key).kind # "Ok"
    /\ result = Err("Error_invalid_taproot_root")

\* the input is a P2PKH address and the Output built before it is the P2PKH
\* builder of the hash that address embeds, for the same amount
AddressAfterItsHash ==
    /\ Len(history) = 1
    /\ IsAddress(input)
    /\ Decoded(input).kind = "Ok"
    /\ Decoded(input).val.payload.kind = "PubkeyHash"
    /\ history[1].input =
         Output(input.amount,
                R_builder(B_p2pkh(ToPublicKeyOrHash("hash",
                                     Decoded(input).val.payload.bytes))))

SameAsDirectP2PKH ==
    /\ result.kind = "Ok"
    /\ result = history[1].result
    /\ result.val.script_pubkey =
         <<118, 169, 20>> \o Decoded(input).val.payload.bytes \o <<136, 172>>

\* C10 as stated: every P2PKH address builds the TxOut that the P2PKH builder
\* of its embedded hash builds.
C10_AddressEqualsDirect ==
    (Finished /\ AddressAfterItsHash) => SameAsDirectP2PKH

\* C10 as amended: every P2PKH address of the Bitcoin main network builds the
\* TxOut that the P2PKH builder of its embedded hash builds.
C10_MainnetAddressEqualsDirect ==
    (Finished /\ AddressAfterItsHash /\ Decoded(input).val.network = "Bitcoin")
       => SameAsDirectP2PKH

C10_Witness ==
    /\ pc = "done"
    /\ AddressAfterItsHash
    /\ Decoded(input).val.network = "Bitcoin"
    /\ calls = 2
    /\ SameAsDirectP2PKH

\* the input is an address that decodes to a witness program and the
\* resolver has run on it
WitnessAddressResolved ==
    /\ IsAddress(input)
    /\ calls >= 1
    /\ Decoded(input).kind = "Ok"
    /\ Decoded(input).val.payload.kind = "WitnessProgram"

\* what output_from_address returned for the input: the Output the recursive
\* call matches on, or the error handed to the caller
Resolved == IF cur # input THEN Ok(cur) ELSE result

\* the mapping of a witness program by version and length
WitnessMapping(amount, program) ==
    CASE program.version = 0 /\ Len(program.bytes) = 20 ->
           Ok(Output(amount,
                R_builder(B_p2wpkh(ToPublicKeyOrHash("hash", program.bytes)))))
      [] program.version = 0 /\ Len(program.bytes) # 20 ->
           Err("Error_bad_address_recipient")
      [] program.version = 1 /\ Len(program.bytes) = 32 ->
           Ok(Output(amount, R_builder(B_p2tr_key_path(program.bytes))))
      [] program.version = 1 /\ Len(program.bytes) # 32 ->
           Err("Error_bad_address_recipient")
      [] OTHER -> Err("Error_unsupported_address_recipient")

\* C11 as stated: the resolver maps every witness-program address by the
\* version and the length of its program.
C11_WitnessMapping ==
    WitnessAddressResolved =>
       Resolved = WitnessMapping(input.amount, Decoded(input).val.payload)

\* C11 as amended: the resolver maps every witness-program address of the
\* Bitcoin main network by the version and the length of its program.
C11_MainnetWitnessMapping ==
    (WitnessAddressResolved /\ Decoded(input).val.network = "Bitcoin") =>
       Resolved = WitnessMapping(input.amount, Decoded(input).val.payload)

C11_Witness ==
    /\ WitnessAddressResolved
    /\ Decoded(input).val.network = "Bitcoin"
    /\ Decoded(input).val.payload.version = 1
    /\ Len(Decoded(input).val.payload.bytes) = 33
    /\ pc = "done"
    /\ Resolved = Err("Error_bad_address_recipient")
    /\ Len(history) = 1
    /\ IsAddress(history[1].input)
    /\ Decoded(history[1].input).val.payload.kind = "WitnessProgram"
    /\ Decoded(history[1].input).val.payload.version = 0
    /\ history[1].result.kind = "Ok"

\* C12: the value of every returned TxOut is the amount of the caller's
\* Output, also when the Output went through the resolver.
C12_ValueIsAmount ==
    (Finished /\ result.kind = "Ok") => result.val.value = input.amount

C12_Witness ==
    /\ pc = "done" /\ result.kind = "Ok"
    /\ IsAddress(input)
    /\ Decoded(input).val.payload.kind = "WitnessProgram"
    /\ calls = 2
    /\ input.amount # 0
    /\ result.val.value = input.amount

\* the script_pubkey an address payload encodes
EncodedScript(payload) ==
    CASE payload.kind = "PubkeyHash" -> <<118, 169, 20>> \o payload.bytes \o <<136, 172>>
      [] payload.kind = "ScriptHash" -> <<169, 20>> \o payload.bytes \o <<135>>
      [] payload.kind = "WitnessProgram" ->
           <<IF payload.version = 0 THEN 0 ELSE 80 + payload.version,
             Len(payload.bytes)>> \o payload.bytes

\* C13: once the resolver has accepted an address, the build of the resolved
\* recipient succeeds with the script_pubkey the address encodes.
C13_ResolvedBuilds ==
    (Finished /\ IsAddress(input) /\ cur # input) =>
       /\ result.kind = "Ok"
       /\ result.val.script_pubkey = EncodedScript(Decoded(input).val.payload)

\* C14: with a supplied hash P2SH succeeds exactly on 20 bytes and otherwise
\* ends in Error_invalid_redeem_script; P2WSH succeeds exactly on 32 bytes
\* and otherwise ends in Error_invalid_witness_redeem_script.
C14_HashLengthPerVariant ==
    Finished =>
       /\ (/\ IsBuilder(input, {"p2sh"})
           /\ input.to_recipient.variant.arg.variant = "hash") =>
             IF Len(input.to_recipient.variant.arg.bytes) = 20
             THEN /\ result.kind = "Ok"
                  /\ result.val.script_pubkey =
                       <<169, 20>> \o input.to_recipient.variant.arg.bytes \o <<135>>
             ELSE result = Err("Error_invalid_redeem_script")
       /\ (/\ IsBuilder(input, {"p2wsh"})
           /\ input.to_recipient.variant.arg.variant = "hash") =>
             IF Len(input.to_recipient.variant.arg.bytes) = 32
             THEN /\ result.kind = "Ok"
                  /\ result.val.script_pubkey =
                       <<0, 32>> \o input.to_recipient.variant.arg.bytes
             ELSE result = Err("Error_invalid_witness_redeem_script")

C14_Witness ==
    /\ pc = "done"
    /\ IsBuilder(input, {"p2wsh"})
    /\ input.to_recipient.variant.arg.variant = "hash"
    /\ Len(input.to_recipient.variant.arg.bytes) = 20
    /\ result = Err("Error_invalid_witness_redeem_script")
    /\ Len(history) = 1
    /\ history[1].input.to_recipient =
         R_builder(B_p2sh(input.to_recipient.variant.arg))
    /\ history[1].result.kind = "Ok"
====
